---- MODULE Spec2Model ----
(***************************************************************************)
(* Model of the LPS Tech Support triage assistant.                         *)
(*                                                                         *)
(*   src/app.py   the Streamlit page.  The "Direct AI Chat" mode keeps the *)
(*                triage session in st.session_state; every click on a     *)
(*                widget runs the script once from top to bottom, and      *)
(*                st.rerun() runs it once more at once.                     *)
(*   src/t_ai.py  the stateless FastAPI request operations.                *)
(*                                                                         *)
(* Texts that the code only stores and forwards (issue, answers, name,     *)
(* email, diagnosis, ticket) are strings.  The reply to the question       *)
(* prompt, which the code parses, is a sequence of one-character strings.  *)
(* An optional value (Python None or a value) is a sequence of length 0    *)
(* or 1.                                                                   *)
(***************************************************************************)
EXTENDS Integers, Sequences, FiniteSets, TLC

VARIABLES
    client,                 \* app.py:12-17 / t_ai.py:26: TRUE iff the OpenAI client exists
    chat_step,              \* st.session_state.chat_step
    chat_questions,         \* st.session_state.chat_questions
    chat_answers,           \* st.session_state.chat_answers
    chat_current_q_index,   \* st.session_state.chat_current_q_index (0-based)
    original_issue,         \* st.session_state.original_issue
    final_diagnosis,        \* st.session_state.final_diagnosis (optional)
    show_escalation,        \* st.session_state.show_escalation
    event,                  \* the button that triggered the last script run, and
                            \* the text fields submitted with it
    ui,                     \* the st.success / st.warning / st.error boxes of the page
    new_chat_button,        \* TRUE iff the page shows the "Start New Chat" button
    ticket_text,            \* the escalation ticket shown on the page (optional)
    gen,                    \* the generation call made during the last step
    diag_calls,             \* how often get_final_diagnosis was called
    hist,                   \* the buttons that were pressed with effect so far
    api                     \* t_ai.py: the last request and its response

vars == <<client, chat_step, chat_questions, chat_answers, chat_current_q_index,
          original_issue, final_diagnosis, show_escalation, event, ui,
          new_chat_button, ticket_text, gen, diag_calls, hist, api>>

session_vars == <<chat_step, chat_questions, chat_answers, chat_current_q_index,
                  original_issue, final_diagnosis, show_escalation>>

page_vars == <<event, ui, new_chat_button, ticket_text, gen, diag_calls, hist>>

-----------------------------------------------------------------------------
(* Bounds and input sets *)

\* the largest number of "||"-separated questions in a generated reply
MaxSegments == 6

None == <<>>
Some(x) == <<x>>

SKIPPED == Some("SKIPPED")

Issues == {"", "black screen"}
Answers == {"", "yes", "no"}
Names == {"", "Jane"}
Emails == {"", "jane@x.com"}

Digit == <<"1", "2", "3", "4", "5", "6", "7", "8">>

\* the text of the i-th generated question
QText(i) == <<"q", Digit[i]>>

RECURSIVE JoinQs(_)
\* "q1||q2||...||qn"
JoinQs(n) ==
    IF n = 0 THEN <<>>
    ELSE IF n = 1 THEN QText(1)
    ELSE JoinQs(n - 1) \o <<"|", "|">> \o QText(n)

\* replies of the model to the question prompt
QuestionReplies ==
    {JoinQs(n) : n \in 0..MaxSegments}
    \cup { <<" ", " ">>,                                    \* blank
           <<"|", "|">>,                                    \* only the delimiter
           <<" ", "a", " ", "|", "|", "\n", "b", "\n">>,    \* padded segments
           <<"a", "|", "|", "|", "|", "b", "|", "|">>,      \* empty segments
           <<"a", "|", "|", "|", "b">>,                     \* three pipes
           <<"a", " ", "b", "|", "c">> }                    \* inner blank, single pipe

\* what the completion call does: it raises, or returns the reply's content
Raise(c) == [ok |-> FALSE, content |-> c]
Return(c) == [ok |-> TRUE, content |-> c]

QuestionOutcomes == {Raise(<<>>)} \cup {Return(r) : r \in QuestionReplies}
DiagnosisOutcomes == {Raise("")} \cup
    {Return(t) : t \in {"", "1. Diagnosis 2. Solution", "SKIPPED"}}
TicketOutcomes == {Raise("")} \cup {Return(t) : t \in {"Ticket - Escalated"}}

-----------------------------------------------------------------------------
(* str.split("||"), str.strip() and the list comprehension of               *)
(* app.py:88 and t_ai.py:158                                                *)

Whitespace == {" ", "\n", "\t"}

\* the index of the first "||" in s, 0 when there is none
FindSep(s) ==
    LET hits == {i \in 1..(Len(s) - 1) : s[i] = "|" /\ s[i + 1] = "|"}
    IN  IF hits = {} THEN 0 ELSE CHOOSE i \in hits : \A j \in hits : i <= j

RECURSIVE Split(_)
\* content.split("||"): non-overlapping separators, scanned from the left
Split(s) ==
    LET i == FindSep(s)
    IN  IF i = 0 THEN <<s>>
        ELSE <<SubSeq(s, 1, i - 1)>> \o Split(SubSeq(s, i + 2, Len(s)))

RECURSIVE LStrip(_)
LStrip(s) ==
    IF s # <<>> /\ Head(s) \in Whitespace THEN LStrip(Tail(s)) ELSE s

RECURSIVE RStrip(_)
RStrip(s) ==
    IF s # <<>> /\ s[Len(s)] \in Whitespace
    THEN RStrip(SubSeq(s, 1, Len(s) - 1)) ELSE s

\* q.strip()
Strip(s) == RStrip(LStrip(s))

RECURSIVE StripNonEmpty(_)
\* [q.strip() for q in parts if q.strip()]
StripNonEmpty(parts) ==
    IF parts = <<>> THEN <<>>
    ELSE LET q == Strip(Head(parts))
         IN  (IF q # <<>> THEN <<q>> ELSE <<>>) \o StripNonEmpty(Tail(parts))

\* app.py:88 / t_ai.py:158
ParseQuestions(content) == StripNonEmpty(Split(content))

-----------------------------------------------------------------------------
(* The session store and the helper functions of src/app.py *)

\* the triage session as one value
Session ==
    [chat_step |-> chat_step,
     chat_questions |-> chat_questions,
     chat_answers |-> chat_answers,
     chat_current_q_index |-> chat_current_q_index,
     original_issue |-> original_issue,
     final_diagnosis |-> final_diagnosis,
     show_escalation |-> show_escalation]

\* app.py:182-195, and the values "Start New Chat" assigns (app.py:295-301)
InitSession ==
    [chat_step |-> "init",
     chat_questions |-> <<>>,
     chat_answers |-> <<>>,
     chat_current_q_index |-> 0,
     original_issue |-> "",
     final_diagnosis |-> None,
     show_escalation |-> FALSE]

\* no generation function was called
NoGen ==
    [kind |-> "none", upstream |-> FALSE, ok |-> FALSE,
     qa_history |-> <<>>, history_text |-> <<>>, pre |-> <<>>]

\* a call of a generation function: its kind, whether it reached the completion
\* service, whether that call returned, the qa_history argument, the history
\* text of its prompt, and the session at the moment of the call
GenCall(kind, out, qa, text, s) ==
    [kind |-> kind, upstream |-> client, ok |-> client /\ out.ok,
     qa_history |-> qa, history_text |-> text, pre |-> <<s>>]

\* a history text cut off after the first three pairs
EscalationHistoryText_Truncated(qa_history) ==
    [i \in 1..(IF Len(qa_history) < 3 THEN Len(qa_history) ELSE 3) |->
        <<"- Q: ", qa_history[i][1], "\n  A: ", qa_history[i][2]>>]

\* generate_escalation_ticket, app.py:32: one "- Q: ..\n  A: .." entry per pair,
\* joined by newlines
EscalationHistoryText(qa_history) ==
    [i \in 1..Len(qa_history) |->
        <<"- Q: ", qa_history[i][1], "\n  A: ", qa_history[i][2]>>]

\* get_final_diagnosis, app.py:98
DiagnosisHistoryText(qa_history) ==
    [i \in 1..Len(qa_history) |->
        <<"Q: ", qa_history[i][1], "\nA: ", qa_history[i][2]>>]

\* generate_escalation_ticket, app.py:24-62: the text it returns
generate_escalation_ticket(name, email, initial_issue, qa_history, out) ==
    IF ~client THEN "Error"
    ELSE IF out.ok THEN out.content
    ELSE "Error generating ticket: e"

\* get_diagnostic_questions, app.py:64-92: the list it returns
get_diagnostic_questions(issue_description, out) ==
    IF ~client THEN <<>>
    ELSE IF out.ok THEN ParseQuestions(out.content)
    ELSE <<>>

\* get_diagnostic_questions, app.py:90-91: the st.error of the except branch
QuestionErrorBox(out) ==
    IF client /\ ~out.ok THEN {<<"error", "AI Error: e">>} ELSE {}

\* get_final_diagnosis, app.py:94-121: the text it returns
get_final_diagnosis(issue_description, qa_history, out) ==
    IF ~client THEN "Error: API not connected."
    ELSE IF out.ok THEN out.content
    ELSE "AI Error: e"

-----------------------------------------------------------------------------
(* One run of the "Direct AI Chat" script, app.py:178-333.                  *)
(* A run maps the session it starts with to the session it leaves, the      *)
(* boxes it draws and the generation call it makes.  st.button() is TRUE    *)
(* only in the run that the click on that very button triggered.            *)

Box(level, text) == <<level, text>>

\* the result of a script run
Run(s, boxes, call, calls, shown, ticket) ==
    [s |-> s, ui |-> boxes, gen |-> call, diag_called |-> calls,
     new_chat_button |-> shown, ticket_text |-> ticket]

\* a diagnosis block that does not look at the cached value
DiagnosisDue_NoCache(s) ==
    s.final_diagnosis # SKIPPED

\* app.py:262-265: the diagnosis is generated in this run
DiagnosisDue(s) ==
    s.final_diagnosis # SKIPPED /\ s.final_diagnosis = None

\* app.py:262-271: the session after the cached-diagnosis block
CacheDiagnosis(s, dout) ==
    IF DiagnosisDue(s)
    THEN [s EXCEPT !.final_diagnosis =
            Some(get_final_diagnosis(s.original_issue, s.chat_answers, dout))]
    ELSE s

\* the generation call of the cached-diagnosis block
DiagnosisGen(s, dout) ==
    IF DiagnosisDue(s)
    THEN GenCall("diagnosis", dout, s.chat_answers,
                 DiagnosisHistoryText(s.chat_answers), s)
    ELSE NoGen

\* app.py:274 and 310-314: the boxes of the diagnosis step
DiagnosisBoxes(s) ==
    (IF s.final_diagnosis # SKIPPED
     THEN {Box("success", "Analysis Complete.")} ELSE {})
    \cup
    (IF s.show_escalation
     THEN IF s.final_diagnosis = SKIPPED
          THEN {Box("warning", "Diagnostic process stopped by user.")}
          ELSE {Box("warning", "We're sorry the AI solution didn't work.")}
     ELSE {})

\* app.py:198-333 with no button pressed: what a rerun, or a run triggered by
\* a widget that is no button, does
Render(s, dout) ==
    IF s.chat_step = "diagnosis"
    THEN LET s1 == CacheDiagnosis(s, dout)
         IN  Run(s1, DiagnosisBoxes(s1), DiagnosisGen(s, dout),
                 IF DiagnosisDue(s) THEN 1 ELSE 0, FALSE, None)
    ELSE Run(s, {}, NoGen, 0, FALSE, None)

\* a run that ends in st.rerun(): the page is the one the second run draws;
\* the call reported is the first run's unless the second run makes one
Rerun(s, call, calls, dout) ==
    LET r == Render(s, dout)
    IN  [r EXCEPT !.gen = IF r.gen.kind = "none" THEN call ELSE r.gen,
                  !.diag_called = @ + calls]

\* a "Start Diagnosis" that stores the questions without the "if qs" test
StartDiagnosisRun_NoCheck(s, user_issue, qout, dout) ==
    IF user_issue = ""
    THEN Run(s, {Box("warning", "Please describe the issue first.")},
             NoGen, 0, FALSE, None)
    ELSE Rerun([s EXCEPT !.original_issue = user_issue,
                         !.chat_questions = get_diagnostic_questions(user_issue, qout),
                         !.chat_step = "questioning",
                         !.final_diagnosis = None,
                         !.show_escalation = FALSE],
               GenCall("questions", qout, <<>>, <<>>, s), 0, dout)

\* app.py:201-215: "Start Diagnosis"
StartDiagnosisRun(s, user_issue, qout, dout) ==
    IF user_issue = ""
    THEN Run(s, {Box("warning", "Please describe the issue first.")},
             NoGen, 0, FALSE, None)
    ELSE LET qs == get_diagnostic_questions(user_issue, qout)
             call == GenCall("questions", qout, <<>>, <<>>, s)
         IN  IF qs # <<>>
             THEN Rerun([s EXCEPT !.original_issue = user_issue,
                                  !.chat_questions = qs,
                                  !.chat_step = "questioning",
                                  !.final_diagnosis = None,
                                  !.show_escalation = FALSE],
                        call, 0, dout)
             ELSE Run(s, QuestionErrorBox(qout)
                         \cup {Box("error", "Could not generate questions.")},
                      call, 0, FALSE, None)

\* app.py:219-225: the question on the page (Python indexes from 0)
CurrentQuestion(s) == s.chat_questions[s.chat_current_q_index + 1]

\* a "Next" that increments the index on the last question as well
NextRun_AlwaysIncrement(s, answer, dout) ==
    IF answer = ""
    THEN Run(s, {Box("warning", "Please provide an answer.")},
             NoGen, 0, FALSE, None)
    ELSE LET s1 == [s EXCEPT !.chat_answers =
                        Append(@, <<CurrentQuestion(s), answer>>),
                             !.chat_current_q_index = @ + 1]
         IN  IF s.chat_current_q_index + 1 < Len(s.chat_questions)
             THEN Rerun(s1, NoGen, 0, dout)
             ELSE Rerun([s1 EXCEPT !.chat_step = "diagnosis"], NoGen, 0, dout)

\* a "Next" that rewinds the index when the last question is answered
NextRun_Rewind(s, answer, dout) ==
    IF answer = ""
    THEN Run(s, {Box("warning", "Please provide an answer.")},
             NoGen, 0, FALSE, None)
    ELSE LET s1 == [s EXCEPT !.chat_answers =
                        Append(@, <<CurrentQuestion(s), answer>>)]
         IN  IF s.chat_current_q_index + 1 < Len(s.chat_questions)
             THEN Rerun([s1 EXCEPT !.chat_current_q_index = @ + 1], NoGen, 0, dout)
             ELSE Rerun([s1 EXCEPT !.chat_step = "diagnosis",
                                   !.chat_current_q_index = 0], NoGen, 0, dout)

\* app.py:233-243: "Next"
NextRun(s, answer, dout) ==
    IF answer = ""
    THEN Run(s, {Box("warning", "Please provide an answer.")},
             NoGen, 0, FALSE, None)
    ELSE LET s1 == [s EXCEPT !.chat_answers =
                        Append(@, <<CurrentQuestion(s), answer>>)]
         IN  IF s.chat_current_q_index + 1 < Len(s.chat_questions)
             THEN Rerun([s1 EXCEPT !.chat_current_q_index = @ + 1], NoGen, 0, dout)
             ELSE Rerun([s1 EXCEPT !.chat_step = "diagnosis"], NoGen, 0, dout)

\* a "Stop & Create Ticket" that does not set the SKIPPED mark
StopRun_NoMark(s, answer, dout) ==
    LET s1 == IF answer # ""
              THEN [s EXCEPT !.chat_answers =
                        Append(@, <<CurrentQuestion(s), answer>>)]
              ELSE s
    IN  Rerun([s1 EXCEPT !.chat_step = "diagnosis",
                         !.show_escalation = TRUE],
              NoGen, 0, dout)

\* app.py:247-256: "Stop & Create Ticket"
StopRun(s, answer, dout) ==
    LET s1 == IF answer # ""
              THEN [s EXCEPT !.chat_answers =
                        Append(@, <<CurrentQuestion(s), answer>>)]
              ELSE s
    IN  Rerun([s1 EXCEPT !.chat_step = "diagnosis",
                         !.show_escalation = TRUE,
                         !.final_diagnosis = SKIPPED],
              NoGen, 0, dout)

\* app.py:291-294: "Yes, Solved!": the run draws the success box and the
\* "Start New Chat" button, and assigns nothing
YesRun(s, dout) ==
    LET r == Render(s, dout)
    IN  [r EXCEPT !.ui = @ \cup {Box("success", "Great! Happy to help.")},
                  !.new_chat_button = TRUE]

\* app.py:304-306: "No, Create Ticket"
NoRun(s, dout) ==
    LET r == Render(s, dout)
    IN  Rerun([r.s EXCEPT !.show_escalation = TRUE], r.gen, r.diag_called, dout)

\* app.py:316-333: "Submit Escalation Ticket"
SubmitRun(s, e_name, e_email, dout, eout) ==
    LET r == Render(s, dout)
    IN  IF e_name # "" /\ e_email # ""
        THEN [r EXCEPT
                !.gen = GenCall("escalation", eout, r.s.chat_answers,
                                EscalationHistoryText(r.s.chat_answers), r.s),
                !.ui = @ \cup {Box("success",
                                   "Escalation Ticket Created Successfully!")},
                !.ticket_text =
                    Some(generate_escalation_ticket(e_name, e_email,
                            r.s.original_issue, r.s.chat_answers, eout))]
        ELSE [r EXCEPT !.ui = @ \cup
                {Box("error", "Please provide Name and Email.")}]

\* app.py:291-302: a click on "Start New Chat".  In the run it triggers,
\* st.button("Yes, Solved!") is FALSE, so the block that holds the button and
\* its assignments (app.py:292-302) is not entered
NewChatRun(s, dout) == Render(s, dout)

-----------------------------------------------------------------------------
(* The triage session as a state machine: one action per widget *)

\* a click on a button, with the text fields of the page
Click(button, fields) == [button |-> button, fields |-> fields]

\* the initial value of api: no request was made
NoRequest == [op |-> "none"]

Init ==
    /\ client \in BOOLEAN
    /\ chat_step = InitSession.chat_step
    /\ chat_questions = InitSession.chat_questions
    /\ chat_answers = InitSession.chat_answers
    /\ chat_current_q_index = InitSession.chat_current_q_index
    /\ original_issue = InitSession.original_issue
    /\ final_diagnosis = InitSession.final_diagnosis
    /\ show_escalation = InitSession.show_escalation
    /\ event = Click("open", <<>>)
    /\ ui = {}
    /\ new_chat_button = FALSE
    /\ ticket_text = None
    /\ gen = NoGen
    /\ diag_calls = 0
    /\ hist = {}
    /\ api = NoRequest

\* the state after the run r that the widget ev triggered; done are the
\* buttons whose handler took effect in it
Finish(r, ev, done) ==
    /\ chat_step' = r.s.chat_step
    /\ chat_questions' = r.s.chat_questions
    /\ chat_answers' = r.s.chat_answers
    /\ chat_current_q_index' = r.s.chat_current_q_index
    /\ original_issue' = r.s.original_issue
    /\ final_diagnosis' = r.s.final_diagnosis
    /\ show_escalation' = r.s.show_escalation
    /\ event' = ev
    /\ ui' = r.ui
    /\ new_chat_button' = r.new_chat_button
    /\ ticket_text' = r.ticket_text
    /\ gen' = r.gen
    /\ diag_calls' = diag_calls + r.diag_called
    /\ hist' = hist \cup done
    /\ UNCHANGED <<client, api>>

\* app.py:201: the user presses "Start Diagnosis"
StartDiagnosis ==
    /\ chat_step = "init"
    /\ \E user_issue \in Issues, qout \in QuestionOutcomes, dout \in DiagnosisOutcomes :
        LET r == StartDiagnosisRun(Session, user_issue, qout, dout)
        IN  Finish(r, Click("start", <<user_issue>>), IF r.s.chat_step = "questioning" THEN {"start"} ELSE {})

\* app.py:233: the user presses "Next"
NextAnswer ==
    /\ chat_step = "questioning"
    /\ \E answer \in Answers, dout \in DiagnosisOutcomes :
        Finish(NextRun(Session, answer, dout), Click("next", <<answer>>),
               IF answer # "" THEN {"next"} ELSE {})

\* app.py:247: the user presses "Stop & Create Ticket"
StopAndCreateTicket ==
    /\ chat_step = "questioning"
    /\ \E answer \in Answers, dout \in DiagnosisOutcomes :
        Finish(StopRun(Session, answer, dout), Click("stop", <<answer>>), {"stop"})

\* app.py:291: the user presses "Yes, Solved!"
YesSolved ==
    /\ chat_step = "diagnosis"
    /\ final_diagnosis # SKIPPED
    /\ \E dout \in DiagnosisOutcomes :
        Finish(YesRun(Session, dout), Click("yes", <<>>), {"yes"})

\* app.py:304: the user presses "No, Create Ticket"
NoCreateTicket ==
    /\ chat_step = "diagnosis"
    /\ final_diagnosis # SKIPPED
    /\ \E dout \in DiagnosisOutcomes :
        Finish(NoRun(Session, dout), Click("no", <<>>), {"no"})

\* app.py:319: the user presses "Submit Escalation Ticket"
SubmitEscalation ==
    /\ chat_step = "diagnosis"
    /\ show_escalation
    /\ \E e_name \in Names, e_email \in Emails,
          dout \in DiagnosisOutcomes, eout \in TicketOutcomes :
        LET r == SubmitRun(Session, e_name, e_email, dout, eout)
        IN  Finish(r, Click("submit", <<e_name, e_email>>),
                   IF r.gen.kind = "escalation" THEN {"submit"} ELSE {})

\* app.py:294: the user presses "Start New Chat"
StartNewChat ==
    /\ new_chat_button
    /\ \E dout \in DiagnosisOutcomes :
        Finish(NewChatRun(Session, dout), Click("new_chat", <<>>), {})

\* a run that no button triggered: the user edits a text field, or leaves the
\* chat mode and returns to it (app.py:151)
Rerender ==
    \E dout \in DiagnosisOutcomes :
        Finish(Render(Session, dout), Click("rerender", <<>>), {})

Next ==
    \/ StartDiagnosis
    \/ NextAnswer
    \/ StopAndCreateTicket
    \/ YesSolved
    \/ NoCreateTicket
    \/ SubmitEscalation
    \/ StartNewChat
    \/ Rerender

Spec == Init /\ [][Next]_vars

-----------------------------------------------------------------------------
(* The request operations of src/t_ai.py.  Each is stateless: api holds the  *)
(* request, whether the completion service was called, and the response.     *)

\* qa_history values of a request: up to two QAPair
QAPairs == {<<"tried restarting?", a>> : a \in {"", "yes"}}
QAHistories ==
    {<<>>} \cup {<<p>> : p \in QAPairs} \cup {<<p, q>> : p \in QAPairs, q \in QAPairs}

\* generate_id, t_ai.py:59-60: two of the numbers randint can draw
TicketNumbers == {100000, 999999}
generate_id(n) == <<"TICKET-", n>>

\* raise HTTPException(500, detail)
HTTPException(detail) == [status |-> 500, detail |-> detail]
\* a returned dict
Ok(body) == [status |-> 200, body |-> body]

\* one request: the operation, its request body, whether
\* client.chat.completions.create was called, and the response
Request(op, req, called, response) ==
    [op |-> op, req |-> req, upstream |-> called, response |-> response]

\* create_ticket, t_ai.py:99-132
create_ticket(req, n, out) ==
    IF ~client THEN Request("create_ticket", req, FALSE, HTTPException("OpenAI API missing"))
    ELSE IF out.ok
    THEN Request("create_ticket", req, TRUE,
                 Ok([success |-> TRUE, ticket_id |-> generate_id(n),
                     message |-> out.content]))
    ELSE Request("create_ticket", req, TRUE, HTTPException("e"))

\* start_chat, t_ai.py:135-162
start_chat(req, out) ==
    IF ~client THEN Request("start_chat", req, FALSE, HTTPException("OpenAI API missing"))
    ELSE IF out.ok
    THEN Request("start_chat", req, TRUE,
                 Ok([success |-> TRUE, questions |-> ParseQuestions(out.content)]))
    ELSE Request("start_chat", req, TRUE, HTTPException("e"))

\* get_diagnosis, t_ai.py:165-191
get_diagnosis(req, out) ==
    IF ~client THEN Request("get_diagnosis", req, FALSE, HTTPException("OpenAI API missing"))
    ELSE IF out.ok
    THEN Request("get_diagnosis", req, TRUE,
                 Ok([success |-> TRUE, diagnosis |-> out.content]))
    ELSE Request("get_diagnosis", req, TRUE, HTTPException("e"))

\* escalate_ticket, t_ai.py:194-222
escalate_ticket(req, n, out) ==
    IF ~client THEN Request("escalate_ticket", req, FALSE, HTTPException("OpenAI API missing"))
    ELSE IF out.ok
    THEN Request("escalate_ticket", req, TRUE,
                 Ok([success |-> TRUE, ticket_id |-> generate_id(n),
                     ticket_text |-> out.content]))
    ELSE Request("escalate_ticket", req, TRUE, HTTPException("e"))

\* quick_help, t_ai.py:225-251
quick_help(req, out) ==
    IF ~client THEN Request("quick_help", req, FALSE, HTTPException("OpenAI API missing"))
    ELSE IF out.ok
    THEN Request("quick_help", req, TRUE,
                 Ok([success |-> TRUE, suggestion |-> out.content]))
    ELSE Request("quick_help", req, TRUE, HTTPException("e"))

\* POST /api/ticket/create
CreateTicket ==
    \E full_name \in Names, email \in Emails, description \in Issues,
       n \in TicketNumbers, out \in TicketOutcomes :
        /\ api' = create_ticket([full_name |-> full_name, email |-> email,
                                 category |-> "Hardware", description |-> description,
                                 priority |-> "Low"], n, out)
        /\ UNCHANGED <<client, session_vars, page_vars>>

\* POST /api/chat/start
StartChat ==
    \E issue \in Issues, out \in QuestionOutcomes :
        /\ api' = start_chat([issue |-> issue], out)
        /\ UNCHANGED <<client, session_vars, page_vars>>

\* POST /api/chat/diagnose
Diagnose ==
    \E issue \in Issues, qa \in QAHistories, out \in DiagnosisOutcomes :
        /\ api' = get_diagnosis([issue |-> issue, qa_history |-> qa], out)
        /\ UNCHANGED <<client, session_vars, page_vars>>

\* POST /api/chat/escalate
Escalate ==
    \E name \in Names, email \in Emails, issue \in Issues, qa \in QAHistories,
       n \in TicketNumbers, out \in TicketOutcomes :
        /\ api' = escalate_ticket([name |-> name, email |-> email, issue |-> issue,
                                   qa_history |-> qa], n, out)
        /\ UNCHANGED <<client, session_vars, page_vars>>

\* POST /api/ticket/quick-help
QuickHelp ==
    \E description \in Issues, out \in TicketOutcomes :
        /\ api' = quick_help([description |-> description], out)
        /\ UNCHANGED <<client, session_vars, page_vars>>

NextApi ==
    \/ CreateTicket
    \/ StartChat
    \/ Diagnose
    \/ Escalate
    \/ QuickHelp

SpecApi == Init /\ [][NextApi]_vars

-----------------------------------------------------------------------------
(* Properties of the triage session *)

\* the phases of the session, read from the session store
Intake == chat_step = "init"
Questioning == chat_step = "questioning"
Escalating == chat_step = "diagnosis" /\ show_escalation
Diagnosing == chat_step = "diagnosis" /\ ~show_escalation /\ final_diagnosis # SKIPPED

\* a diagnosis result is stored
DiagnosisStored == chat_step = "diagnosis" /\ final_diagnosis \notin {None, SKIPPED}

\* C1: get_final_diagnosis is called at most once in a session, and once the
\* session is in the diagnosis step with a result stored, no later run (a
\* re-render, "Yes, Solved!", "No, Create Ticket", an escalation submit, "Start
\* New Chat") calls it again.
C1_DiagnosisOnce ==
    [][/\ diag_calls' <= 1
       /\ DiagnosisStored => /\ diag_calls' = diag_calls
                             /\ gen'.kind # "diagnosis"
                             /\ final_diagnosis' = final_diagnosis]_vars

\* a diagnosis was generated, and the page was drawn again after "Yes, Solved!"
\* and "No, Create Ticket" were pressed
C1_Witness ==
    /\ DiagnosisStored
    /\ diag_calls = 1
    /\ {"yes", "no"} \subseteq hist
    /\ event.button = "rerender"

\* C2: 0 <= chat_current_q_index <= len(chat_questions) in every state, and no
\* step decreases chat_current_q_index.
C2_IndexMonotone ==
    [][/\ 0 <= chat_current_q_index
       /\ chat_current_q_index <= Len(chat_questions)
       /\ 0 <= chat_current_q_index'
       /\ chat_current_q_index' <= Len(chat_questions')
       /\ chat_current_q_index' >= chat_current_q_index]_vars

\* the index has advanced twice and the session went on to an escalation submit
C2_Witness ==
    /\ chat_current_q_index >= 2
    /\ chat_step = "diagnosis"
    /\ "submit" \in hist

\* the levels of the boxes on the page
Levels == {b[1] : b \in ui}

\* C3: when a generation call (questions, diagnosis, escalation) fails or no
\* client is configured, the session equals the session at the moment of the
\* call, and the page shows an error box and no success box.  (The triggers
\* read only the session, so an unchanged session is one from which the same
\* trigger calls the generation again.)
C3_FailedCallLeavesSession ==
    (gen.kind # "none" /\ ~gen.ok) =>
        /\ Session = gen.pre[1]
        /\ "error" \in Levels
        /\ "success" \notin Levels

\* C4: "Start Diagnosis" succeeds (the session leaves the init step) only with
\* 3 to 5 stored questions, each non-empty after trimming.
C4_ThreeToFiveQuestions ==
    ("start" \in hist) =>
        /\ Len(chat_questions) \in 3..5
        /\ \A i \in 1..Len(chat_questions) :
              chat_questions[i] # <<>> /\ Strip(chat_questions[i]) = chat_questions[i]

\* C5: the page offers the reset in every phase, and the run that a click on it
\* triggers leaves exactly the initial session.
C5_ResetEverywhere ==
    /\ new_chat_button
    /\ event.button = "new_chat" => Session = InitSession

\* the (question, answer) pairs of a prompt's history text, in order
PairsOf(text) == [i \in 1..Len(text) |-> <<text[i][2], text[i][4]>>]

\* the answers are the first Len(chat_answers) questions, each with a
\* non-empty answer
AnswersFollowQuestions ==
    /\ Len(chat_answers) <= Len(chat_questions)
    /\ \A i \in 1..Len(chat_answers) :
          chat_answers[i][1] = chat_questions[i] /\ chat_answers[i][2] # ""

\* C6: an escalation call receives chat_answers as its qa_history and puts
\* every pair, unchanged and in order, into its prompt: one pair per question
\* after a rejected diagnosis, the pairs answered so far after an early stop
\* (none when nothing was answered); the page then shows a ticket, which is
\* the reply of the completion service when that call returned.
C6_EscalationHistory ==
    (gen.kind = "escalation") =>
        /\ gen.qa_history = chat_answers
        /\ PairsOf(gen.history_text) = chat_answers
        /\ AnswersFollowQuestions
        /\ "no" \in hist => Len(chat_answers) = Len(chat_questions)
        /\ "stop" \in hist => Len(chat_answers) <= chat_current_q_index + 1
        /\ ticket_text # None
        /\ gen.ok => ticket_text \in {Some(o.content) : o \in TicketOutcomes}

\* an escalation after a rejected diagnosis of a five-question session
C6_Witness ==
    /\ gen.kind = "escalation"
    /\ gen.ok
    /\ "no" \in hist
    /\ Len(gen.qa_history) = 5

\* an escalation after an early stop with two answers, the second one pending
C6_WitnessPartial ==
    /\ gen.kind = "escalation"
    /\ "stop" \in hist
    /\ chat_current_q_index = 1
    /\ Len(gen.qa_history) = 2

\* an escalation after an early stop before any answer
C6_WitnessEmpty ==
    /\ gen.kind = "escalation"
    /\ gen.ok
    /\ "stop" \in hist
    /\ gen.qa_history = <<>>
    /\ ticket_text # None

\* C7: "Stop & Create Ticket" appends the pending answer iff it is non-empty,
\* sets show_escalation and the SKIPPED mark and leaves the questioning step
\* for the escalation form; afterwards get_final_diagnosis is never called, and
\* while the form is shown the SKIPPED mark tells an early stop from a rejected
\* diagnosis.
C7_EarlyStop ==
    [][/\ (event'.button = "stop") =>
            /\ chat_answers' =
                 IF event'.fields[1] # ""
                 THEN Append(chat_answers,
                             <<chat_questions[chat_current_q_index + 1], event'.fields[1]>>)
                 ELSE chat_answers
            /\ show_escalation'
            /\ chat_step' = "diagnosis"
            /\ diag_calls' = 0
       /\ ("stop" \in hist) =>
            /\ diag_calls' = diag_calls
            /\ gen'.kind # "diagnosis"
            /\ show_escalation' /\ chat_step' = "diagnosis"
       /\ (chat_step' = "diagnosis" /\ show_escalation') =>
            /\ ("stop" \in hist') <=> (final_diagnosis' = SKIPPED)
            /\ ("no" \in hist') <=> (final_diagnosis' # SKIPPED)
            /\ ("stop" \in hist') <=>
                   (Box("warning", "Diagnostic process stopped by user.") \in ui')]_vars

\* an early stop with a pending answer, followed by an escalation submit
C7_Witness ==
    /\ "stop" \in hist
    /\ "submit" \in hist
    /\ Len(chat_answers) = 2
    /\ chat_current_q_index = 1
    /\ final_diagnosis = SKIPPED

\* C8: once "Yes, Solved!" was pressed, no later step changes the session;
\* show_escalation does not become true and no escalation is generated.
C8_ResolvedTerminal ==
    [][("yes" \in hist) =>
            /\ Session' = Session
            /\ gen'.kind # "escalation"]_vars

\* C10 as claimed: an accepted answer appends (questions[currentIndex], answer)
\* and increments the index, so len(answers) = currentIndex; the session is in
\* the questioning step while currentIndex < len(questions) and in the
\* diagnosis step exactly when currentIndex = len(questions).
C10_IndexCountsAnswers ==
    [][(event'.button = "next" /\ event'.fields[1] # "") =>
            /\ chat_answers' =
                 Append(chat_answers,
                        <<chat_questions[chat_current_q_index + 1], event'.fields[1]>>)
            /\ chat_current_q_index' = chat_current_q_index + 1
            /\ Len(chat_answers') = chat_current_q_index'
            /\ (chat_step' = "questioning") <=>
                   (chat_current_q_index' < Len(chat_questions'))
            /\ (chat_step' = "diagnosis") <=>
                   (chat_current_q_index' = Len(chat_questions'))]_vars

\* C10 as claimed, in sessions of 3 to 5 questions only
C10_IndexCountsAnswers_ThreeToFive ==
    [][(event'.button = "next" /\ event'.fields[1] # ""
            /\ Len(chat_questions) \in 3..5) =>
            /\ chat_current_q_index' = chat_current_q_index + 1
            /\ Len(chat_answers') = chat_current_q_index'
            /\ (chat_step' = "diagnosis") <=>
                   (chat_current_q_index' = Len(chat_questions'))]_vars

\* C10, amended: an accepted answer appends exactly the pair
\* (questions[currentIndex], answer).  When a further question remains, the
\* index is incremented, len(answers) = currentIndex and the session stays in
\* the questioning step; on the last question the index stays at
\* len(questions) - 1 and the session enters the diagnosis step with
\* len(answers) = len(questions), one pair per question.
C10_AnswerPerQuestion ==
    [][(event'.button = "next" /\ event'.fields[1] # "") =>
            /\ chat_answers' =
                 Append(chat_answers,
                        <<chat_questions[chat_current_q_index + 1], event'.fields[1]>>)
            /\ chat_questions' = chat_questions
            /\ IF chat_current_q_index + 1 < Len(chat_questions)
               THEN /\ chat_current_q_index' = chat_current_q_index + 1
                    /\ Len(chat_answers') = chat_current_q_index'
                    /\ chat_step' = "questioning"
               ELSE /\ chat_current_q_index' = chat_current_q_index
                    /\ chat_current_q_index' = Len(chat_questions) - 1
                    /\ chat_step' = "diagnosis"
                    /\ Len(chat_answers') = Len(chat_questions)
                    /\ \A i \in 1..Len(chat_questions) :
                          chat_answers'[i][1] = chat_questions[i]]_vars

\* the last of four questions was just answered
C10_Witness ==
    /\ event.button = "next"
    /\ event.fields[1] # ""
    /\ chat_step = "diagnosis"
    /\ Len(chat_questions) = 4
    /\ Len(chat_answers) = 4

-----------------------------------------------------------------------------
(* Properties of the request operations *)

\* a required text field of the request is empty
EmptyField ==
    \/ api.op = "start_chat" /\ api.req.issue = ""
    \/ api.op = "get_diagnosis" /\ api.req.issue = ""
    \/ api.op = "escalate_ticket" /\ "" \in {api.req.name, api.req.email, api.req.issue}
    \/ api.op = "create_ticket" /\ "" \in {api.req.full_name, api.req.email, api.req.description}

\* the run was triggered with an empty required text field
EmptyInput ==
    \/ event.button \in {"start", "next"} /\ event.fields[1] = ""
    \/ event.button = "submit" /\ "" \in {event.fields[1], event.fields[2]}

\* C9: a step with an empty required field calls no generation: on the page
\* (empty issue, empty answer, empty name or email) the run makes no call and
\* shows a warning or an error, and a request operation with an empty required
\* text field does not call the completion service.
C9_ValidationBlocks ==
    /\ EmptyInput => gen.kind = "none" /\ Levels \cap {"warning", "error"} # {}
    /\ (api.op # "none" /\ EmptyField) => ~api.upstream

\* the page part of C9, also as a step: the run leaves the session unchanged
C9_PageValidation ==
    [][EmptyInput' => (Session' = Session /\ gen'.kind = "none")]_vars

-----------------------------------------------------------------------------
(* The questioning page *)

\* app.py:225: chat_questions[idx] is an element of the list
QuestionLookupInRange ==
    chat_current_q_index + 1 \in DOMAIN chat_questions

\* app.py:220-222: idx / total divides by a non-zero total
ProgressDefined == Len(chat_questions) # 0

\* C11: in every state of the questioning step the questions are non-empty,
\* chat_current_q_index < len(chat_questions) and len(chat_answers) =
\* chat_current_q_index, so that chat_questions[idx] is in range and idx / total
\* does not divide by zero.
C11_QuestioningWellFormed ==
    Questioning =>
        /\ chat_questions # <<>>
        /\ chat_current_q_index < Len(chat_questions)
        /\ Len(chat_answers) = chat_current_q_index
        /\ QuestionLookupInRange
        /\ ProgressDefined

\* the third question is on the page, the page having been drawn once more
C11_Witness ==
    /\ Questioning
    /\ chat_current_q_index = 2
    /\ Len(chat_answers) = 2
    /\ event.button = "rerender"

====
